---- MODULE Spec2Model ----
(***************************************************************************)
(* Model of the monet crate: fixed-point currency amounts, currency codes, *)
(* a rate table, and the deferred operation algebra (Add/Sub/Mul/Div over  *)
(* Money leaves) evaluated by Operation::execute.                          *)
(*                                                                         *)
(* Rust results are modelled with three outcomes: "Ok" and "Err" are the   *)
(* two variants of Result, "Panic" is an abort of the evaluation (integer  *)
(* division by zero panics in every build profile).                        *)
(***************************************************************************)
EXTENDS Integers, Sequences, FiniteSets, TLC

VARIABLES
    rates,      \* Rates.map: a function CurrencyCode -> CurrencyAmount
    expr,       \* the operation tree built so far by operator chaining
    called,     \* which entry point produced `result`
    result,     \* [res, log]: the value returned and the calls made, in order
    str,        \* the &str handed to the CurrencyCode constructors
    parsed,     \* what the constructor returned for `str`
    amt,        \* a CurrencyAmount built from a count and converted back
    disp,       \* a Money handed to Display, and what fmt produced
    typed,      \* a MoneyDynamic converted into a typed Money<C>
    summed      \* a sequence of Money<C> amounts and its Sum

vars == <<rates, expr, called, result, str, parsed, amt, disp, typed, summed>>

\* the parts of the state an operation of another component leaves alone
algebraVars == <<rates, expr, called, result>>
codeVars == <<str, parsed>>
Idle == [fn |-> "none"]

---------------------------------------------------------------------------
(* Bounds of the model *)

MaxOps == 2         \* operator nodes in a chained tree
MaxStrLen == 3      \* chars in a string handed to a CurrencyCode constructor

---------------------------------------------------------------------------
(* i128 arithmetic.  The amounts of the model stay far inside the i128     *)
(* range, so no operation overflows.                                       *)

Abs(x) == IF x < 0 THEN -x ELSE x

\* a division that rounds toward minus infinity
TruncDiv_Floor(x, y) == IF y > 0 THEN x \div y ELSE (-x) \div (-y)

\* Rust `/` on i128 truncates toward zero (y # 0; y = 0 panics at the caller)
TruncDiv(x, y) ==
    IF (x >= 0) = (y > 0) THEN Abs(x) \div Abs(y) ELSE -(Abs(x) \div Abs(y))

RECURSIVE pow(_, _)
pow(base, n) == IF n = 0 THEN 1 ELSE base * pow(base, n - 1)

---------------------------------------------------------------------------
(* Result values *)

Ok(v) == [tag |-> "Ok", val |-> v]
Err(e) == [tag |-> "Err", err |-> e]
Panic == [tag |-> "Panic"]

RateNotFound(code) == [kind |-> "RateNotFound", code |-> code]
MalformedCode(s) == [kind |-> "MalformedCode", input |-> s]

---------------------------------------------------------------------------
(* Currency codes, money, exponents, rates *)

USD == <<85, 83, 68>>
CHF == <<67, 72, 70>>
Codes == {USD, CHF}

Money(amount, currency_code) ==
    [op |-> "Money", amount |-> amount, currency_code |-> currency_code]

Exponent(amount, exponent) == [amount |-> amount, exponent |-> exponent]

\* the inputs: negative, zero and positive amounts; worths whose quotients
\* are inexact in both directions, and a worth of zero
Amounts == {-2, 0, 1}
Worths == {0, 2, 3}
Leaves == {Money(a, c) : a \in Amounts, c \in Codes}
ExpAmounts == {-3, 0, 7}
ExpPowers == {0, 1}
Exponents == {Exponent(a, x) : a \in ExpAmounts, x \in ExpPowers}

\* Rates::with_rates accepts any map; a code may be absent or worth 0
with_rates(map) == map
RateTables ==
    UNION {[D -> Worths] : D \in SUBSET Codes}

\* Rates::worth, with the lookup it makes
worth(rs, code) ==
    IF code \in DOMAIN rs
        THEN [res |-> Ok(rs[code]), log |-> << <<"worth", code>> >>]
        ELSE [res |-> Err(RateNotFound(code)), log |-> << <<"worth", code>> >>]

\* into_code that divides by the new worth before multiplying
into_code_DivideFirst(self, code, rs) ==
    LET ws == worth(rs, self.currency_code)
        wn == worth(rs, code)
        lg == ws.log \o wn.log
    IN  IF ws.res.tag # "Ok" THEN ws
        ELSE IF wn.res.tag # "Ok" THEN [res |-> wn.res, log |-> lg]
        ELSE IF wn.res.val = 0 THEN [res |-> Panic, log |-> lg]
        ELSE [res |-> Ok(Money(TruncDiv(self.amount, wn.res.val) * ws.res.val,
                               code)),
              log |-> lg]

\* into_code that returns early for a conversion into the same code
into_code_SameCodeShortcut(self, code, rs) ==
    LET ws == worth(rs, self.currency_code)
        wn == worth(rs, code)
        lg == ws.log \o wn.log
    IN  IF self.currency_code = code THEN [res |-> Ok(self), log |-> <<>>]
        ELSE IF ws.res.tag # "Ok" THEN ws
        ELSE IF wn.res.tag # "Ok" THEN [res |-> wn.res, log |-> lg]
        ELSE IF wn.res.val = 0 THEN [res |-> Panic, log |-> lg]
        ELSE [res |-> Ok(Money(TruncDiv(self.amount * ws.res.val, wn.res.val),
                               code)),
              log |-> lg]

\* Money::into_code: both lookups, then amount * worth_self / worth_new
into_code(self, code, rs) ==
    LET ws == worth(rs, self.currency_code)
        wn == worth(rs, code)
        lg == ws.log \o wn.log
    IN  IF ws.res.tag # "Ok" THEN ws
        ELSE IF wn.res.tag # "Ok" THEN [res |-> wn.res, log |-> lg]
        ELSE IF wn.res.val = 0 THEN [res |-> Panic, log |-> lg]
        ELSE [res |-> Ok(Money(TruncDiv(self.amount * ws.res.val, wn.res.val),
                               code)),
              log |-> lg]

---------------------------------------------------------------------------
(* Strings and the CurrencyCode constructors.  A &str is a sequence of     *)
(* chars (Unicode scalar values); its bytes are its UTF-8 encoding.        *)

AMOUNT_UNIT == 1000000

\* "U", "s", "e acute" (2 bytes), "euro sign" (3 bytes), U+1F4B0 (4 bytes)
Chars == {85, 115, 233, 8364, 128176}

RECURSIVE StringsOfLen(_)
StringsOfLen(n) ==
    IF n = 0 THEN {<<>>}
    ELSE {<<c>> \o s : c \in Chars, s \in StringsOfLen(n - 1)}
Strings == UNION {StringsOfLen(n) : n \in 0..MaxStrLen}

\* the UTF-8 encoding of one char
encode_utf8(c) ==
    IF c < 128 THEN <<c>>
    ELSE IF c < 2048 THEN <<192 + (c \div 64), 128 + (c % 64)>>
    ELSE IF c < 65536
        THEN <<224 + (c \div 4096), 128 + ((c \div 64) % 64), 128 + (c % 64)>>
    ELSE <<240 + (c \div 262144), 128 + ((c \div 4096) % 64),
           128 + ((c \div 64) % 64), 128 + (c % 64)>>

\* str::as_bytes
RECURSIVE as_bytes(_)
as_bytes(s) ==
    IF s = <<>> THEN <<>> ELSE encode_utf8(Head(s)) \o as_bytes(Tail(s))

\* str::len counts bytes
len(s) == Len(as_bytes(s))

Utf8Error == [kind |-> "Utf8Error"]
IsCont(b) == b \in 128..191

\* std::str::from_utf8: validates and decodes a byte sequence
RECURSIVE from_utf8(_)
from_utf8(b) ==
    LET n == Len(b)
        rest(k) == from_utf8(SubSeq(b, k + 1, n))
        cons(c, r) == IF r.tag = "Ok" THEN Ok(<<c>> \o r.val) ELSE r
        c2 == (b[1] - 192) * 64 + (b[2] - 128)
        c3 == (b[1] - 224) * 4096 + (b[2] - 128) * 64 + (b[3] - 128)
        c4 == (b[1] - 240) * 262144 + (b[2] - 128) * 4096
                + (b[3] - 128) * 64 + (b[4] - 128)
    IN  IF n = 0 THEN Ok(<<>>)
        ELSE IF b[1] < 128 THEN cons(b[1], rest(1))
        ELSE IF b[1] \in 194..223 /\ n >= 2 /\ IsCont(b[2])
            THEN cons(c2, rest(2))
        ELSE IF /\ b[1] \in 224..239 /\ n >= 3 /\ IsCont(b[2]) /\ IsCont(b[3])
                /\ c3 >= 2048 /\ c3 \notin 55296..57343
            THEN cons(c3, rest(3))
        ELSE IF /\ b[1] \in 240..244 /\ n >= 4
                /\ IsCont(b[2]) /\ IsCont(b[3]) /\ IsCont(b[4])
                /\ c4 \in 65536..1114111
            THEN cons(c4, rest(4))
        ELSE Err(Utf8Error)

\* TryFrom<&str> for CurrencyCode that counts chars instead of bytes
try_from_CharCount(s) ==
    IF Len(s) # 3 THEN Err(MalformedCode(s))
    ELSE LET bytes == as_bytes(s)
         IN  Ok(<<bytes[1], bytes[2], bytes[3]>>)

\* TryFrom<&str> for CurrencyCode
try_from(s) ==
    IF len(s) # 3 THEN Err(MalformedCode(s))
    ELSE LET bytes == as_bytes(s)
         IN  Ok(<<bytes[1], bytes[2], bytes[3]>>)

\* FromStr for CurrencyCode (str::parse)
from_str(s) == try_from(s)

\* TryFrom<&CurrencyCode> for &str
code_as_str(code) == from_utf8(code)

\* CurrencyAmount::with_cents
with_cents(cents) == TruncDiv(cents * AMOUNT_UNIT, 100)

\* Money::with_str_code
with_str_code(amount, currency_code) ==
    LET c == from_str(currency_code)
    IN  IF c.tag # "Ok" THEN c ELSE Ok(Money(amount, c.val))

\* Money::with_cents
Money_with_cents(cents, currency_code) ==
    with_str_code(with_cents(cents), currency_code)

---------------------------------------------------------------------------
(* The operation algebra *)

Add(a, b) == [op |-> "Add", a |-> a, b |-> b]
Sub(a, b) == [op |-> "Sub", a |-> a, b |-> b]
Mul(a, e) == [op |-> "Mul", a |-> a, e |-> e]
Div(a, e) == [op |-> "Div", a |-> a, e |-> e]

RECURSIVE execute(_, _)

\* execute of a Money that looks its own code up in the table
MoneyExecute_Lookup(self, rs) ==
    LET w == worth(rs, self.currency_code)
    IN  [res |-> IF w.res.tag = "Ok" THEN Ok(self) ELSE w.res,
         log |-> << <<"execute", self>> >> \o w.log]

\* impl Operation for Money
MoneyExecute(self, rs) ==
    [res |-> Ok(self), log |-> << <<"execute", self>> >>]

\* Add::execute that evaluates its right operand before its left one
AddExecute_RightFirst(self, rs) ==
    LET ra == execute(self.a, rs)
        rb == execute(self.b, rs)
        money_a == ra.res.val
        money_b == rb.res.val
        rc == into_code(money_b, money_a.currency_code, rs)
    IN  IF rb.res.tag # "Ok" THEN rb
        ELSE IF ra.res.tag # "Ok"
            THEN [res |-> ra.res, log |-> rb.log \o ra.log]
        ELSE IF rc.res.tag # "Ok"
            THEN [res |-> rc.res, log |-> rb.log \o ra.log \o rc.log]
        ELSE [res |-> Ok(Money(money_a.amount + rc.res.val.amount,
                               money_a.currency_code)),
              log |-> rb.log \o ra.log \o rc.log]

\* impl Operation for Add<A, B>
AddExecute(self, rs) ==
    LET ra == execute(self.a, rs)
        rb == execute(self.b, rs)
        money_a == ra.res.val
        money_b == rb.res.val
        rc == into_code(money_b, money_a.currency_code, rs)
    IN  IF ra.res.tag # "Ok" THEN ra
        ELSE IF rb.res.tag # "Ok"
            THEN [res |-> rb.res, log |-> ra.log \o rb.log]
        ELSE IF rc.res.tag # "Ok"
            THEN [res |-> rc.res, log |-> ra.log \o rb.log \o rc.log]
        ELSE [res |-> Ok(Money(money_a.amount + rc.res.val.amount,
                               money_a.currency_code)),
              log |-> ra.log \o rb.log \o rc.log]

\* Sub::execute whose result carries the right operand's currency code
SubExecute_RightCode(self, rs) ==
    LET ra == execute(self.a, rs)
        rb == execute(self.b, rs)
        money_a == ra.res.val
        money_b == rb.res.val
        rc == into_code(money_b, money_a.currency_code, rs)
    IN  IF ra.res.tag # "Ok" THEN ra
        ELSE IF rb.res.tag # "Ok"
            THEN [res |-> rb.res, log |-> ra.log \o rb.log]
        ELSE IF rc.res.tag # "Ok"
            THEN [res |-> rc.res, log |-> ra.log \o rb.log \o rc.log]
        ELSE [res |-> Ok(Money(money_a.amount - rc.res.val.amount,
                               money_b.currency_code)),
              log |-> ra.log \o rb.log \o rc.log]

\* impl Operation for Sub<A, B>
SubExecute(self, rs) ==
    LET ra == execute(self.a, rs)
        rb == execute(self.b, rs)
        money_a == ra.res.val
        money_b == rb.res.val
        rc == into_code(money_b, money_a.currency_code, rs)
    IN  IF ra.res.tag # "Ok" THEN ra
        ELSE IF rb.res.tag # "Ok"
            THEN [res |-> rb.res, log |-> ra.log \o rb.log]
        ELSE IF rc.res.tag # "Ok"
            THEN [res |-> rc.res, log |-> ra.log \o rb.log \o rc.log]
        ELSE [res |-> Ok(Money(money_a.amount - rc.res.val.amount,
                               money_a.currency_code)),
              log |-> ra.log \o rb.log \o rc.log]

\* Mul::execute that divides by 10^exponent before it multiplies
MulExecute_DivideFirst(self, rs) ==
    LET exponent == self.e
        ra == execute(self.a, rs)
        money_a == ra.res.val
    IN  IF ra.res.tag # "Ok" THEN ra
        ELSE [res |-> Ok(Money(TruncDiv(money_a.amount,
                                        pow(10, exponent.exponent))
                                   * exponent.amount,
                               money_a.currency_code)),
              log |-> ra.log]

\* impl Operation for Mul<A>
MulExecute(self, rs) ==
    LET exponent == self.e
        ra == execute(self.a, rs)
        money_a == ra.res.val
    IN  IF ra.res.tag # "Ok" THEN ra
        ELSE [res |-> Ok(Money(TruncDiv(money_a.amount * exponent.amount,
                                        pow(10, exponent.exponent)),
                               money_a.currency_code)),
              log |-> ra.log]

\* Div::execute that divides by the amount before it scales up
DivExecute_DivideFirst(self, rs) ==
    LET exponent == self.e
        ra == execute(self.a, rs)
        money_a == ra.res.val
    IN  IF ra.res.tag # "Ok" THEN ra
        ELSE IF exponent.amount = 0 THEN [res |-> Panic, log |-> ra.log]
        ELSE [res |-> Ok(Money(TruncDiv(money_a.amount, exponent.amount)
                                   * pow(10, exponent.exponent),
                               money_a.currency_code)),
              log |-> ra.log]

\* impl Operation for Div<A>
DivExecute(self, rs) ==
    LET exponent == self.e
        ra == execute(self.a, rs)
        money_a == ra.res.val
    IN  IF ra.res.tag # "Ok" THEN ra
        ELSE IF exponent.amount = 0 THEN [res |-> Panic, log |-> ra.log]
        ELSE [res |-> Ok(Money(TruncDiv(money_a.amount
                                            * pow(10, exponent.exponent),
                                        exponent.amount),
                               money_a.currency_code)),
              log |-> ra.log]

\* Operation::execute, dispatched on the node type
execute(self, rs) ==
    CASE self.op = "Money" -> MoneyExecute(self, rs)
      [] self.op = "Add" -> AddExecute(self, rs)
      [] self.op = "Sub" -> SubExecute(self, rs)
      [] self.op = "Mul" -> MulExecute(self, rs)
      [] self.op = "Div" -> DivExecute(self, rs)

\* number of operator nodes of a tree
RECURSIVE OpCount(_)
OpCount(t) ==
    CASE t.op = "Money" -> 0
      [] t.op \in {"Add", "Sub"} -> 1 + OpCount(t.a) + OpCount(t.b)
      [] t.op \in {"Mul", "Div"} -> 1 + OpCount(t.a)

---------------------------------------------------------------------------
(* State machine of the operation algebra *)

NoCall == [fn |-> "none"]
NoResult == [res |-> [tag |-> "None"], log |-> <<>>]
NoParse == [fn |-> "none", out |-> [tag |-> "None"], back |-> [tag |-> "None"]]

Init ==
    /\ rates \in {with_rates(m) : m \in RateTables}
    /\ expr \in Leaves
    /\ called = NoCall
    /\ result = NoResult
    /\ str = <<>>
    /\ parsed = NoParse
    /\ amt = Idle /\ disp = Idle /\ typed = Idle /\ summed = Idle

Building == called = NoCall /\ OpCount(expr) < MaxOps

\* std::ops::Add: self + other, and other + self for a Money on the left
add ==
    /\ Building
    /\ \E m \in Leaves : expr' = Add(expr, m) \/ expr' = Add(m, expr)
    /\ UNCHANGED <<rates, called, result, str, parsed>>
    /\ UNCHANGED <<amt, disp, typed, summed>>

\* std::ops::Sub
sub ==
    /\ Building
    /\ \E m \in Leaves : expr' = Sub(expr, m) \/ expr' = Sub(m, expr)
    /\ UNCHANGED <<rates, called, result, str, parsed>>
    /\ UNCHANGED <<amt, disp, typed, summed>>

\* std::ops::Mul<Exponent>
mul ==
    /\ Building
    /\ \E e \in Exponents : expr' = Mul(expr, e)
    /\ UNCHANGED <<rates, called, result, str, parsed>>
    /\ UNCHANGED <<amt, disp, typed, summed>>

\* std::ops::Div<Exponent>
div ==
    /\ Building
    /\ \E e \in Exponents : expr' = Div(expr, e)
    /\ UNCHANGED <<rates, called, result, str, parsed>>
    /\ UNCHANGED <<amt, disp, typed, summed>>

\* expr.execute(&rates)
Execute ==
    /\ called = NoCall
    /\ called' = [fn |-> "execute"]
    /\ result' = execute(expr, rates)
    /\ UNCHANGED <<rates, expr, str, parsed>>
    /\ UNCHANGED <<amt, disp, typed, summed>>

\* money.into_code(code, &rates) on a bare Money
IntoCode ==
    /\ called = NoCall
    /\ expr.op = "Money"
    /\ \E code \in Codes :
        /\ called' = [fn |-> "into_code", code |-> code]
        /\ result' = into_code(expr, code, rates)
    /\ UNCHANGED <<rates, expr, str, parsed>>
    /\ UNCHANGED <<amt, disp, typed, summed>>

Next == add \/ sub \/ mul \/ div \/ Execute \/ IntoCode

Spec == Init /\ [][Next]_vars

---------------------------------------------------------------------------
(* Vocabulary of the properties *)

Executed == called.fn = "execute"
Converted == called.fn = "into_code"

\* the leftmost Money leaf of a tree
RECURSIVE LeftmostLeaf(_)
LeftmostLeaf(t) == IF t.op = "Money" THEN t ELSE LeftmostLeaf(t.a)

\* the currency codes of all Money leaves of a tree
RECURSIVE LeafCodes(_)
LeafCodes(t) ==
    CASE t.op = "Money" -> {t.currency_code}
      [] t.op \in {"Add", "Sub"} -> LeafCodes(t.a) \cup LeafCodes(t.b)
      [] t.op \in {"Mul", "Div"} -> LeafCodes(t.a)

\* the currency codes an Add or Sub node of the tree has to look up: the
\* codes its two operands evaluate to
RECURSIVE OperandCodes(_)
OperandCodes(t) ==
    CASE t.op = "Money" -> {}
      [] t.op \in {"Add", "Sub"} ->
            {LeftmostLeaf(t.a).currency_code, LeftmostLeaf(t.b).currency_code}
                \cup OperandCodes(t.a) \cup OperandCodes(t.b)
      [] t.op \in {"Mul", "Div"} -> OperandCodes(t.a)

\* q is n / d truncated toward zero: n = q * d + r with |r| < |d| and r
\* zero or of the sign of n
IsTruncQuot(q, n, d) ==
    \E r \in (1 - Abs(d))..(Abs(d) - 1) :
        /\ n = q * d + r
        /\ r = 0 \/ (r > 0) = (n > 0)

WorthCalls(log) == {i \in 1..Len(log) : log[i][1] = "worth"}

---------------------------------------------------------------------------
(* C1: Add(a, b) over two Money operands, with a worth for both codes in    *)
(* the table, returns Ok(Money) with amount                                *)
(* a.amount + (b.amount * worth(b.code)) / worth(a.code), truncated toward *)
(* zero, and a's currency code.                                            *)
C1_AddConvertsIntoLeft ==
    (/\ Executed
     /\ expr.op = "Add" /\ expr.a.op = "Money" /\ expr.b.op = "Money"
     /\ {expr.a.currency_code, expr.b.currency_code} \subseteq DOMAIN rates)
    => /\ result.res.tag = "Ok"
       /\ result.res.val.currency_code = expr.a.currency_code
       /\ IsTruncQuot(result.res.val.amount - expr.a.amount,
                      expr.b.amount * rates[expr.b.currency_code],
                      rates[expr.a.currency_code])

(* C2: when the evaluation of a tree succeeds, the result carries the      *)
(* currency code of the tree's leftmost Money leaf.                        *)
C2_ResultCodeIsLeftmost ==
    (Executed /\ result.res.tag = "Ok")
    => result.res.val.currency_code = LeftmostLeaf(expr).currency_code

C2_Witness ==
    /\ Executed /\ result.res.tag = "Ok"
    /\ OpCount(expr) = 2
    /\ expr.op \in {"Add", "Sub"}
    /\ expr.b.op = "Money"
    /\ expr.b.currency_code # LeftmostLeaf(expr).currency_code
    /\ LeafCodes(expr) = Codes

(* C3: converting a Money into its own currency code, with a rate for that *)
(* code in the table, returns Ok of the same Money.                        *)
C3_SelfConversionIsIdentity ==
    (/\ Converted
     /\ called.code = expr.currency_code
     /\ expr.currency_code \in DOMAIN rates)
    => result.res = Ok(expr)

(* C4: ((a + b) - b).execute(r) equals a.execute(r) for every operation a  *)
(* and Money b, with rates for all the currencies involved.                *)
C4_AddThenSubCancels ==
    (/\ Executed
     /\ expr.op = "Sub" /\ expr.a.op = "Add"
     /\ expr.b.op = "Money" /\ expr.a.b = expr.b
     /\ LeafCodes(expr) \subseteq DOMAIN rates)
    => result.res = execute(expr.a.a, rates).res

(* C5 as stated: if any Money leaf of the tree has a currency code absent  *)
(* from the rate table, execute returns Err(RateNotFound).                 *)
C5_AnyAbsentLeafFails ==
    (Executed /\ ~(LeafCodes(expr) \subseteq DOMAIN rates))
    => /\ result.res.tag = "Err"
       /\ result.res.err.kind = "RateNotFound"

\* the tree holds an Add or Sub node, the only nodes that consult the table
HasAddOrSub(t) == OperandCodes(t) # {}

C5_StateAmended ==
    Executed =>
        /\ (HasAddOrSub(expr) /\ ~(LeafCodes(expr) \subseteq DOMAIN rates))
            => /\ result.res.tag # "Ok"
               /\ result.res.tag = "Err" =>
                    /\ result.res.err.kind = "RateNotFound"
                    /\ result.res.err.code \in LeafCodes(expr) \ DOMAIN rates
        /\ ~HasAddOrSub(expr) => result.res.tag # "Err"

(* C5 amended: if the tree holds at least one Add or Sub node and any of   *)
(* its Money leaves has a currency code absent from the rate table,        *)
(* execute never returns Ok, and an error it returns is RateNotFound of an *)
(* absent leaf code; a tree without Add and Sub nodes never fails with an  *)
(* error; execute leaves the rate table and the operands unchanged.        *)
C5_AbsentOperandCodeFails ==
    /\ []C5_StateAmended
    /\ [][called' # called => (rates' = rates /\ expr' = expr)]_vars

C5_Witness ==
    /\ Executed
    /\ expr.op = "Add" /\ expr.a.op = "Mul" /\ expr.a.a.op = "Money"
    /\ expr.b.op = "Money"
    /\ expr.a.a.currency_code \in DOMAIN rates
    /\ expr.b.currency_code \notin DOMAIN rates
    /\ result.res = Err(RateNotFound(expr.b.currency_code))

(* C6: Mul(a, e) over a Money a returns Ok(Money) with amount              *)
(* (a.amount * e.amount) / 10^e.exponent, multiplied first and then        *)
(* divided truncating toward zero, and a's currency code, and makes no     *)
(* rate lookup.                                                            *)
C6_MulScalesThenDivides ==
    (Executed /\ expr.op = "Mul" /\ expr.a.op = "Money")
    => /\ result.res.tag = "Ok"
       /\ result.res.val.currency_code = expr.a.currency_code
       /\ IsTruncQuot(result.res.val.amount,
                      expr.a.amount * expr.e.amount,
                      pow(10, expr.e.exponent))
       /\ WorthCalls(result.log) = {}

C6_Witness ==
    /\ Executed /\ expr.op = "Mul" /\ expr.a.op = "Money"
    /\ expr.a.amount < 0 /\ expr.e.exponent > 0
    /\ DOMAIN rates = {}
    /\ result.res.tag = "Ok"
    /\ result.res.val.amount # 0
    /\ result.res.val.amount * pow(10, expr.e.exponent)
            # expr.a.amount * expr.e.amount

(* C7: Div(a, e) over a Money a and an Exponent of non-zero amount returns *)
(* Ok(Money) with amount (a.amount * 10^e.exponent) / e.amount, scaled up  *)
(* first and then divided truncating toward zero, and a's currency code.   *)
C7_DivScalesThenDivides ==
    (/\ Executed /\ expr.op = "Div" /\ expr.a.op = "Money"
     /\ expr.e.amount # 0)
    => /\ result.res.tag = "Ok"
       /\ result.res.val.currency_code = expr.a.currency_code
       /\ IsTruncQuot(result.res.val.amount,
                      expr.a.amount * pow(10, expr.e.exponent),
                      expr.e.amount)

C7_Witness ==
    /\ Executed /\ expr.op = "Div" /\ expr.a.op = "Money"
    /\ expr.a.amount < 0 /\ expr.e.amount > 0 /\ expr.e.exponent > 0
    /\ result.res.tag = "Ok"
    /\ result.res.val.amount # 0
    /\ result.res.val.amount * expr.e.amount
            # expr.a.amount * pow(10, expr.e.exponent)

(* C8: execute and into_code always complete by returning a value, Ok or   *)
(* Err; the evaluation never aborts.                                       *)
C8_AlwaysReturnsAValue ==
    (Executed \/ Converted) => result.res.tag \in {"Ok", "Err"}

(* C9: Add(a, b) and Sub(a, b) report the first failure in the order: a,   *)
(* then b, then the rate lookup for b's result code, then the rate lookup  *)
(* for a's result code, and evaluate nothing after it.                     *)
C9_FirstFailureInOrder ==
    (Executed /\ expr.op \in {"Add", "Sub"}) =>
        LET ra == execute(expr.a, rates)
            rb == execute(expr.b, rates)
            code_a == ra.res.val.currency_code
            code_b == rb.res.val.currency_code
            lookup(c) == << <<"worth", c>> >>
        IN  IF ra.res.tag # "Ok"
                THEN result = ra
            ELSE IF rb.res.tag # "Ok"
                THEN result = [res |-> rb.res, log |-> ra.log \o rb.log]
            ELSE IF code_b \notin DOMAIN rates
                THEN result = [res |-> Err(RateNotFound(code_b)),
                               log |-> ra.log \o rb.log \o lookup(code_b)]
            ELSE IF code_a \notin DOMAIN rates
                THEN result = [res |-> Err(RateNotFound(code_a)),
                               log |-> ra.log \o rb.log
                                        \o lookup(code_b) \o lookup(code_a)]
            ELSE result.res.tag # "Err"

C9_Witness ==
    /\ Executed /\ expr.op \in {"Add", "Sub"}
    /\ expr.a.op \in {"Add", "Sub"} /\ expr.b.op = "Money"
    /\ expr.b.currency_code \notin DOMAIN rates
    /\ execute(expr.a, rates).res.tag = "Err"
    /\ result.res = execute(expr.a, rates).res
    /\ \A i \in 1..Len(result.log) : result.log[i] # <<"execute", expr.b>>


(* C15: executing a bare Money returns Ok of that Money unchanged for      *)
(* every rate table, one without the Money's code included, and looks      *)
(* nothing up in the table.                                                *)
C15_BareMoneyIsIdentity ==
    (Executed /\ expr.op = "Money") =>
        /\ result.res = Ok(expr)
        /\ WorthCalls(result.log) = {}

C15_Witness ==
    /\ Executed
    /\ expr.op = "Money"
    /\ expr.currency_code \notin DOMAIN rates
    /\ expr.amount < 0
    /\ result.res = Ok(expr)

\* a chain m1 (+|-) m2 (+|-) ... associated to the left
RECURSIVE IsLeftChain(_)
IsLeftChain(t) ==
    \/ t.op = "Money"
    \/ t.op \in {"Add", "Sub"} /\ t.b.op = "Money" /\ IsLeftChain(t.a)

\* the signed sum of the amounts of a left-associated chain
RECURSIVE SignedSum(_)
SignedSum(t) ==
    CASE t.op = "Money" -> t.amount
      [] t.op = "Add" -> SignedSum(t.a) + t.b.amount
      [] t.op = "Sub" -> SignedSum(t.a) - t.b.amount

(* C20: a left-associated chain of + and - over Money operands that all    *)
(* carry the same code, whose worth in the table is not zero, executes to  *)
(* exactly the signed integer sum of the operand amounts in that code.     *)
C20_SameCodeChainIsExactSum ==
    (/\ Executed
     /\ IsLeftChain(expr)
     /\ \E c \in DOMAIN rates : LeafCodes(expr) = {c} /\ rates[c] # 0) =>
        result.res =
            Ok(Money(SignedSum(expr), LeftmostLeaf(expr).currency_code))

C20_Witness ==
    /\ Executed
    /\ expr.op = "Sub" /\ expr.a.op = "Add"
    /\ IsLeftChain(expr)
    /\ \E c \in DOMAIN rates : LeafCodes(expr) = {c} /\ rates[c] = 3
    /\ expr.a.a.amount = 1 /\ expr.a.b.amount = 1 /\ expr.b.amount = -2
    /\ result.res = Ok(Money(4, expr.b.currency_code))

---------------------------------------------------------------------------
(* State machine of the CurrencyCode constructors *)

InitCode ==
    /\ rates = with_rates(<<>>)
    /\ expr = Money(0, <<0, 0, 0>>)
    /\ called = NoCall
    /\ result = NoResult
    /\ str \in Strings
    /\ parsed = NoParse
    /\ amt = Idle /\ disp = Idle /\ typed = Idle /\ summed = Idle

\* the CurrencyCode a constructor returned
CodeOf(p) ==
    IF p.fn \in {"try_from", "parse"} THEN p.out.val
    ELSE p.out.val.currency_code

\* CurrencyCode::try_from(str)
TryFrom ==
    /\ parsed.fn = "none"
    /\ parsed' = [parsed EXCEPT !.fn = "try_from", !.out = try_from(str)]
    /\ UNCHANGED <<rates, expr, called, result, str>>
    /\ UNCHANGED <<amt, disp, typed, summed>>

\* str.parse::<CurrencyCode>()
Parse ==
    /\ parsed.fn = "none"
    /\ parsed' = [parsed EXCEPT !.fn = "parse", !.out = from_str(str)]
    /\ UNCHANGED <<rates, expr, called, result, str>>
    /\ UNCHANGED <<amt, disp, typed, summed>>

\* Money::with_str_code(amount, str)
WithStrCode ==
    /\ parsed.fn = "none"
    /\ \E amount \in Amounts :
        parsed' = [parsed EXCEPT !.fn = "with_str_code",
                                 !.out = with_str_code(amount, str)]
    /\ UNCHANGED <<rates, expr, called, result, str>>
    /\ UNCHANGED <<amt, disp, typed, summed>>

\* Money::with_cents(cents, str)
WithCents ==
    /\ parsed.fn = "none"
    /\ \E cents \in Amounts :
        parsed' = [parsed EXCEPT !.fn = "with_cents",
                                 !.out = Money_with_cents(cents, str)]
    /\ UNCHANGED <<rates, expr, called, result, str>>
    /\ UNCHANGED <<amt, disp, typed, summed>>

\* <&str>::try_from(&code) on the code just built
AsStr ==
    /\ parsed.out.tag = "Ok"
    /\ parsed.back.tag = "None"
    /\ parsed' = [parsed EXCEPT !.back = code_as_str(CodeOf(parsed))]
    /\ UNCHANGED <<rates, expr, called, result, str>>
    /\ UNCHANGED <<amt, disp, typed, summed>>

NextCode == TryFrom \/ Parse \/ WithStrCode \/ WithCents \/ AsStr

SpecCode == InitCode /\ [][NextCode]_vars

---------------------------------------------------------------------------
(* CurrencyAmount: construction from a count of sub-units and conversion   *)
(* back                                                                    *)

\* CurrencyAmount::with_unit
with_unit(unit) == unit * AMOUNT_UNIT

\* with_tenths that divides the count before scaling it
with_tenths_DivideFirst(tenths) == TruncDiv(tenths, 10) * AMOUNT_UNIT

\* CurrencyAmount::with_tenths
with_tenths(tenths) == TruncDiv(tenths * AMOUNT_UNIT, 10)

\* CurrencyAmount::with_thousands
with_thousands(thousands) == TruncDiv(thousands * AMOUNT_UNIT, 1000)

\* From<i128> for CurrencyAmount
from_i128(i) == i

\* CurrencyAmount::into_unit
into_unit(self) == TruncDiv(self, AMOUNT_UNIT)

\* CurrencyAmount::into_tenths
into_tenths(self) == TruncDiv(self * 10, AMOUNT_UNIT)

\* CurrencyAmount::into_cents
into_cents(self) == TruncDiv(self * 100, AMOUNT_UNIT)

\* CurrencyAmount::into_thousands
into_thousands(self) == TruncDiv(self * 1000, AMOUNT_UNIT)

\* equality of CurrencyAmounts on their whole units only
CurrencyAmount_eq_WholeUnits(self, other) ==
    TruncDiv(self, AMOUNT_UNIT) = TruncDiv(other, AMOUNT_UNIT)

\* #[derive(PartialEq)] on the tuple struct CurrencyAmount(i128)
CurrencyAmount_eq(self, other) == self = other

\* PartialEq for Exponent
Exponent_eq(self, other) ==
    TruncDiv(self.amount, pow(10, self.exponent))
        = TruncDiv(other.amount, pow(10, other.exponent))

SubUnits == {"unit", "tenths", "cents", "thousands"}
Counts == {-2, -1, 0, 1, 2}

InitAmount ==
    /\ rates = with_rates(<<>>)
    /\ expr = Money(0, <<0, 0, 0>>)
    /\ called = NoCall
    /\ result = NoResult
    /\ str = <<>>
    /\ parsed = NoParse
    /\ amt = Idle /\ disp = Idle /\ typed = Idle /\ summed = Idle

\* CurrencyAmount::with_unit / with_tenths / with_cents / with_thousands /
\* from, on a count
WithCount ==
    /\ amt.fn = "none"
    /\ \E count \in Counts, fn \in SubUnits \cup {"raw"} :
        amt' = [fn |-> fn, count |-> count,
                value |-> CASE fn = "unit" -> with_unit(count)
                            [] fn = "tenths" -> with_tenths(count)
                            [] fn = "cents" -> with_cents(count)
                            [] fn = "thousands" -> with_thousands(count)
                            [] fn = "raw" -> from_i128(count),
                into |-> "none", back |-> 0]
    /\ UNCHANGED <<algebraVars, codeVars, disp, typed, summed>>

\* into_unit / into_tenths / into_cents / into_thousands on the amount built
IntoCount ==
    /\ amt.fn \in SubUnits \cup {"raw"}
    /\ amt.into = "none"
    /\ \E into \in SubUnits :
        amt' = [amt EXCEPT
                    !.into = into,
                    !.back = CASE into = "unit" -> into_unit(amt.value)
                               [] into = "tenths" -> into_tenths(amt.value)
                               [] into = "cents" -> into_cents(amt.value)
                               [] into = "thousands" ->
                                    into_thousands(amt.value)]
    /\ UNCHANGED <<algebraVars, codeVars, disp, typed, summed>>

RawAmounts == {-1000001, -1, 0, 1, 999999, 1000000, 1000001, 2000000}
EqExponents ==
    {Exponent(a, e) : a \in {-15, 0, 7, 10, 1000}, e \in {0, 1, 2}}

\* a == b on two CurrencyAmounts
CompareAmounts ==
    /\ amt.fn = "none"
    /\ \E a \in RawAmounts, b \in RawAmounts :
        amt' = [fn |-> "eq", a |-> a, b |-> b,
                eq |-> CurrencyAmount_eq(a, b)]
    /\ UNCHANGED <<algebraVars, codeVars, disp, typed, summed>>

\* a == b on two Exponents
CompareExponents ==
    /\ amt.fn = "none"
    /\ \E a \in EqExponents, b \in EqExponents :
        amt' = [fn |-> "exponent_eq", a |-> a, b |-> b,
                eq |-> Exponent_eq(a, b)]
    /\ UNCHANGED <<algebraVars, codeVars, disp, typed, summed>>

NextAmount == WithCount \/ IntoCount \/ CompareAmounts \/ CompareExponents

SpecAmount == InitAmount /\ [][NextAmount]_vars

(* C11: for every count x, building a scaled amount from x sub-units and   *)
(* converting it back at the same precision returns x, for units, tenths,  *)
(* cents and thousands.                                                    *)
C11_SubUnitRoundTrip ==
    (amt.fn \in SubUnits /\ amt.into = amt.fn) => amt.back = amt.count

C11_Witness ==
    /\ amt.fn = "tenths" /\ amt.into = "tenths"
    /\ amt.count < 0
    /\ amt.value = amt.count * 100000
    /\ amt.back = amt.count

(* C12 as stated: equality of two CurrencyAmounts compares their truncated *)
(* whole-unit quotients, x / 10^6 = y / 10^6, so that 1_000_000 and        *)
(* 1_000_001 compare equal.                                                *)
C12_EqComparesWholeUnits ==
    amt.fn = "eq" =>
        (amt.eq <=> TruncDiv(amt.a, AMOUNT_UNIT) = TruncDiv(amt.b, AMOUNT_UNIT))

(* C12 amended: equality of two CurrencyAmounts is equality of the stored  *)
(* integers, so that 1_000_000 and 1_000_001 compare unequal; the          *)
(* comparison of truncated quotients is that of two Exponents, which are   *)
(* equal exactly when amount / 10^exponent, truncated toward zero, is the  *)
(* same number on both sides.                                              *)
C12_EqIsExact ==
    /\ amt.fn = "eq" => (amt.eq <=> amt.a = amt.b)
    /\ amt.fn = "exponent_eq" =>
        (amt.eq <=>
            \E q \in -15..1000 :
                /\ IsTruncQuot(q, amt.a.amount, pow(10, amt.a.exponent))
                /\ IsTruncQuot(q, amt.b.amount, pow(10, amt.b.exponent)))

C12_Witness ==
    /\ amt.fn = "eq"
    /\ amt.a = 1000000 /\ amt.b = 1000001
    /\ ~amt.eq

---------------------------------------------------------------------------
(* Display for Money: text is a sequence of chars, as for str              *)

\* the remainder operator % of i128: the sign of the dividend
Rem(x, y) == x - y * TruncDiv(x, y)

\* Display for a non-negative integer: its decimal digits
RECURSIVE Digits(_)
Digits(n) ==
    IF n < 10 THEN <<48 + n>> ELSE Digits(n \div 10) \o <<48 + (n % 10)>>

\* Display for i128: a minus sign before the digits of a negative number
fmt_i128(n) == IF n < 0 THEN <<45>> \o Digits(-n) ELSE Digits(n)

FmtError == [kind |-> "fmt::Error"]

JPY == <<74, 80, 89>>
NUL == <<0, 0, 0>>

\* iso4217::alpha3(code).map(|c| c.exp): the minor-unit exponent of a
\* currency the table knows
alpha3_exp(code) ==
    IF code \in {CHF, USD} THEN [tag |-> "Some", val |-> 2]
    ELSE IF code = JPY THEN [tag |-> "Some", val |-> 0]
    ELSE [tag |-> "None"]

\* the largest e with 10^e <= i128::MAX, and the least e with
\* 10^e = 0 (mod 2^128)
I128_MAX_POW10 == 38
I128_BITS == 128

\* AMOUNT_UNIT / 10i128.pow(precision as u32): the quotient while
\* 10^precision is an i128 (computed below 10 digits, 0 above, where the
\* power exceeds AMOUNT_UNIT); beyond that pow aborts under
\* overflow checks and wraps without them, where the wrapped power exceeds
\* AMOUNT_UNIT in magnitude below 128 and is 0 from 128 on
unit_per_step(precision, overflow_checks) ==
    IF precision < 10
        THEN Ok(TruncDiv(AMOUNT_UNIT, pow(10, precision)))
    ELSE IF precision <= I128_MAX_POW10 THEN Ok(0)
    ELSE IF overflow_checks THEN Panic
    ELSE IF precision < I128_BITS THEN Ok(0)
    ELSE Panic

\* i128::checked_div
checked_div(x, y) ==
    IF y = 0 THEN [tag |-> "None"] ELSE [tag |-> "Some", val |-> TruncDiv(x, y)]

NoPrecision == [tag |-> "None"]
Precision(p) == [tag |-> "Some", val |-> p]

\* Display for Money: res is what fmt returns, out the text written to the
\* formatter
Money_fmt(self, f_precision, overflow_checks) ==
    LET code == code_as_str(self.currency_code)
        units == TruncDiv(self.amount, AMOUNT_UNIT)
        decimals == Rem(self.amount, AMOUNT_UNIT)
        exp == alpha3_exp(code.val)
        precision == IF f_precision.tag = "Some" THEN f_precision.val
                     ELSE exp.val
        step == unit_per_step(precision, overflow_checks)
        quot == checked_div(decimals, step.val)
    IN  IF code.tag # "Ok" THEN [res |-> Panic, out |-> <<>>]
        ELSE IF f_precision.tag = "None" /\ exp.tag = "None"
            THEN [res |-> Panic, out |-> <<>>]
        ELSE IF precision > 0
            THEN IF step.tag # "Ok" THEN [res |-> Panic, out |-> <<>>]
                 ELSE IF quot.tag = "None"
                    THEN [res |-> Err(FmtError), out |-> <<>>]
                 ELSE [res |-> Ok(<<>>),
                       out |-> fmt_i128(units) \o <<46>> \o fmt_i128(quot.val)
                                \o <<32>> \o code.val]
        ELSE [res |-> Ok(<<>>), out |-> fmt_i128(units) \o <<32>> \o code.val]

DisplayAmounts ==
    {0, 5, 12050000, 12100000, 21250000, -500000, -1500000, -12050000}
DisplayCodes == {CHF, USD, JPY, NUL}
Precisions ==
    {NoPrecision} \cup {Precision(p) : p \in {0, 1, 2, 6, 7, 38, 39, 127, 128}}

InitDisplay ==
    /\ rates = with_rates(<<>>)
    /\ expr = Money(0, <<0, 0, 0>>)
    /\ called = NoCall
    /\ result = NoResult
    /\ str = <<>>
    /\ parsed = NoParse
    /\ amt = Idle /\ disp = Idle /\ typed = Idle /\ summed = Idle

\* Money::new
NewMoney ==
    /\ disp.fn = "none"
    /\ \E amount \in DisplayAmounts, code \in DisplayCodes :
        disp' = [fn |-> "new", money |-> Money(amount, code)]
    /\ UNCHANGED <<algebraVars, codeVars, amt, typed, summed>>

\* write!(w, "{}", money) and write!(w, "{:.p}", money), in a build with or
\* without overflow checks
Format ==
    /\ disp.fn = "new"
    /\ \E precision \in Precisions, overflow_checks \in BOOLEAN :
        LET r == Money_fmt(disp.money, precision, overflow_checks)
        IN  disp' = [fn |-> "fmt", money |-> disp.money,
                     precision |-> precision,
                     overflow_checks |-> overflow_checks,
                     res |-> r.res, out |-> r.out]
    /\ UNCHANGED <<algebraVars, codeVars, amt, typed, summed>>

NextDisplay == NewMoney \/ Format

SpecDisplay == InitDisplay /\ [][NextDisplay]_vars

\* the digits of n, left-padded with zeros to a width of p
ZeroPadded(n, p) == [i \in 1..(p - Len(Digits(n))) |-> 48] \o Digits(n)

Formatted == disp.fn = "fmt"

(* C13: for every Money with a non-negative amount and every precision p   *)
(* in 1..6, Display renders "<W>.<F> <CODE>" with W = amount / 10^6 and F  *)
(* = (amount mod 10^6) / 10^(6-p) written with exactly p digits,           *)
(* left-padded with zeros (12.05 units at precision 2 renders              *)
(* "12.05 CODE"); with precision 0 it renders "<W> <CODE>".                *)
C13_DecimalsZeroPadded ==
    (/\ Formatted
     /\ disp.money.amount >= 0
     /\ disp.precision.tag = "Some"
     /\ disp.precision.val \in 0..6) =>
        LET p == disp.precision.val
            W == disp.money.amount \div AMOUNT_UNIT
            F == (disp.money.amount % AMOUNT_UNIT) \div pow(10, 6 - p)
        IN  /\ disp.res.tag = "Ok"
            /\ disp.out = IF p = 0
                            THEN Digits(W) \o <<32>> \o disp.money.currency_code
                            ELSE Digits(W) \o <<46>> \o ZeroPadded(F, p)
                                    \o <<32>> \o disp.money.currency_code

(* C14: formatting a Money with an explicit precision greater than 6       *)
(* returns a formatting error before any text is written, for every such   *)
(* precision and every amount.                                             *)
C14_PrecisionAboveSixIsError ==
    (/\ Formatted
     /\ disp.precision.tag = "Some"
     /\ disp.precision.val > 6) =>
        /\ disp.res = Err(FmtError)
        /\ disp.out = <<>>

---------------------------------------------------------------------------
(* The typed crate: Money<C> over a static currency C, MoneyDynamic over a *)
(* currency known at run time                                              *)

\* types implementing Currency; a CODE is a str of ASCII chars, so its
\* chars are its bytes
Usd == [CODE |-> USD, UNITS |-> 2, NAME |-> "US Dollar", type_name |-> "USD"]
Jpy == [CODE |-> JPY, UNITS |-> 0, NAME |-> "Yen", type_name |-> "JPY"]
StaticCurrencies == {Usd, Jpy}

\* Money::<C>::with_amount
with_amount(amount) == [amount |-> amount]

\* MoneyDynamic::new
MoneyDynamic_new(amount, code, units) ==
    [amount |-> amount, currency_code |-> code, currency_units |-> units]

\* ConvertError::DifferentCurrency
DifferentCurrency(money_dynamic, target) ==
    [kind |-> "DifferentCurrency", money_dynamic |-> money_dynamic,
     target |-> target]

\* try_from that accepts a MoneyDynamic of any currency
Money_try_from_AnyCode(C, money_dynamic) ==
    Ok(with_amount(money_dynamic.amount))

\* TryFrom<MoneyDynamic> for Money<C>
Money_try_from(C, money_dynamic) ==
    IF C.CODE = money_dynamic.currency_code
        THEN Ok(with_amount(money_dynamic.amount))
        ELSE Err(DifferentCurrency(money_dynamic, C.type_name))

\* the process ends without a result: memory is exhausted
Abort == [tag |-> "Abort"]

\* a usize subtraction x - y: aborts below zero under overflow checks;
\* without them it wraps to a length or width no allocation can hold
usize_sub(x, y, overflow_checks) ==
    IF x >= y THEN Ok(x - y) ELSE IF overflow_checks THEN Panic ELSE Abort

\* the decimals of both Display impls: format!("{}", amount % 10^precision)
\* after precision - len zeros
decimals_of(amount, precision, overflow_checks) ==
    LET decimals_short == fmt_i128(Rem(amount, pow(10, precision)))
        n == usize_sub(precision, Len(decimals_short), overflow_checks)
    IN  IF n.tag # "Ok" THEN n
        ELSE Ok([i \in 1..n.val |-> 48] \o decimals_short)

\* Display for MoneyDynamic
MoneyDynamic_fmt(self, overflow_checks) ==
    LET code == self.currency_code
        precision == self.currency_units
        units == TruncDiv(self.amount, pow(10, precision))
        decimals == decimals_of(self.amount, precision, overflow_checks)
    IN  IF precision = 0
            THEN [res |-> Ok(<<>>),
                  out |-> code \o <<32>> \o fmt_i128(self.amount)]
        ELSE IF decimals.tag # "Ok" THEN [res |-> decimals, out |-> <<>>]
        ELSE [res |-> Ok(<<>>),
              out |-> code \o <<32>> \o fmt_i128(units) \o <<46>>
                        \o decimals.val]

\* Display for Money<C>; f_width is f.width()
MoneyC_fmt(self, C, f_width, overflow_checks) ==
    LET code == C.CODE
        precision == C.UNITS
        units == TruncDiv(self.amount, pow(10, precision))
        decimals == decimals_of(self.amount, precision, overflow_checks)
        units_width == (Len(Digits(Abs(units))) - 1)
                            + (IF units < 0 THEN 1 ELSE 0)
        width == IF f_width.tag = "None" THEN Ok(precision)
                 ELSE usize_sub(f_width.val,
                                Len(code) + 2 + units_width + precision,
                                overflow_checks)
    IN  IF precision = 0
            THEN [res |-> Ok(<<>>),
                  out |-> code \o <<32>> \o fmt_i128(self.amount)]
        ELSE IF decimals.tag # "Ok" THEN [res |-> decimals, out |-> <<>>]
        ELSE IF width.tag # "Ok" THEN [res |-> width, out |-> <<>>]
        ELSE [res |-> Ok(<<>>),
              out |-> code \o <<32>> \o fmt_i128(units) \o <<46>>
                        \o decimals.val
                        \o [i \in 1..(width.val - Len(decimals.val)) |-> 32]]

DynamicAmounts == {0, 5, 100, 12345, -5, -100, -150}
DynamicCodes == {USD, JPY, CHF}
DynamicUnits == {0, 2, 3}
NoWidth == [tag |-> "None"]
Widths == {NoWidth, [tag |-> "Some", val |-> 6], [tag |-> "Some", val |-> 12]}

InitTyped ==
    /\ rates = with_rates(<<>>)
    /\ expr = Money(0, <<0, 0, 0>>)
    /\ called = NoCall
    /\ result = NoResult
    /\ str = <<>>
    /\ parsed = NoParse
    /\ amt = Idle /\ disp = Idle /\ typed = Idle /\ summed = Idle

\* MoneyDynamic::new, in a build with or without overflow checks
NewDynamic ==
    /\ typed.fn = "none"
    /\ \E amount \in DynamicAmounts, code \in DynamicCodes,
          units \in DynamicUnits, overflow_checks \in BOOLEAN :
        typed' = [fn |-> "new", overflow_checks |-> overflow_checks,
                  d |-> MoneyDynamic_new(amount, code, units)]
    /\ UNCHANGED <<algebraVars, codeVars, amt, disp, summed>>

\* write!(w, "{}", d) on the MoneyDynamic
FormatDynamic ==
    /\ typed.fn = "new"
    /\ typed' = [fn |-> "fmt_dynamic",
                 overflow_checks |-> typed.overflow_checks,
                 d |-> typed.d,
                 shown_d |-> MoneyDynamic_fmt(typed.d, typed.overflow_checks)]
    /\ UNCHANGED <<algebraVars, codeVars, amt, disp, summed>>

\* Money::<C>::try_from(d)
TryFromDynamic ==
    /\ typed.fn = "fmt_dynamic"
    /\ \E C \in StaticCurrencies :
        typed' = [fn |-> "try_from",
                  overflow_checks |-> typed.overflow_checks,
                  d |-> typed.d, shown_d |-> typed.shown_d,
                  C |-> C, conv |-> Money_try_from(C, typed.d)]
    /\ UNCHANGED <<algebraVars, codeVars, amt, disp, summed>>

\* write!(w, "{}", money) and write!(w, "{:width}", money) on the Money<C>
\* the conversion gave
FormatMoney ==
    /\ typed.fn = "try_from"
    /\ typed.conv.tag = "Ok"
    /\ \E f_width \in Widths :
        typed' = [fn |-> "fmt_money",
                  overflow_checks |-> typed.overflow_checks,
                  d |-> typed.d, shown_d |-> typed.shown_d,
                  C |-> typed.C, conv |-> typed.conv,
                  f_width |-> f_width,
                  shown_m |-> MoneyC_fmt(typed.conv.val, typed.C, f_width,
                                         typed.overflow_checks)]
    /\ UNCHANGED <<algebraVars, codeVars, amt, disp, summed>>

NextTyped == NewDynamic \/ FormatDynamic \/ TryFromDynamic \/ FormatMoney

SpecTyped == InitTyped /\ [][NextTyped]_vars

TriedFrom == typed.fn \in {"try_from", "fmt_money"}

(* C16: converting a MoneyDynamic d into a Money<C> returns Ok of a Money   *)
(* with d's amount exactly when d's currency code equals C's CODE, and     *)
(* otherwise returns DifferentCurrency carrying d unchanged (amount, code  *)
(* and units) and C's type name.                                           *)
C16_TryFromChecksCode ==
    TriedFrom =>
        /\ (typed.conv.tag = "Ok") <=> (typed.d.currency_code = typed.C.CODE)
        /\ typed.conv.tag = "Ok" => typed.conv.val.amount = typed.d.amount
        /\ typed.conv.tag # "Ok" =>
            /\ typed.conv.tag = "Err"
            /\ typed.conv.err.kind = "DifferentCurrency"
            /\ typed.conv.err.money_dynamic.amount = typed.d.amount
            /\ typed.conv.err.money_dynamic.currency_code
                    = typed.d.currency_code
            /\ typed.conv.err.money_dynamic.currency_units
                    = typed.d.currency_units
            /\ typed.conv.err.target = typed.C.type_name

C16_Witness ==
    /\ typed.fn = "try_from"
    /\ typed.d = MoneyDynamic_new(-150, CHF, 3)
    /\ typed.C = Usd
    /\ typed.conv = Err(DifferentCurrency(typed.d, "USD"))

(* C17: whenever the conversion of a MoneyDynamic d (any amount, any       *)
(* currency_units) into a Money<C> succeeds, Display of the Money<C>       *)
(* without a width gives exactly the text that Display of d gives.         *)
C17_SameTextAfterTryFrom ==
    (typed.fn = "fmt_money" /\ typed.f_width = NoWidth) =>
        typed.shown_m = typed.shown_d

\* the text "<CODE> <W>.<F>" with F of exactly u digits, "<CODE> <amount>"
\* for u = 0
TypedText(code, amount, u) ==
    IF u = 0 THEN code \o <<32>> \o fmt_i128(amount)
    ELSE code \o <<32>> \o fmt_i128(TruncDiv(amount, pow(10, u))) \o <<46>>
            \o ZeroPadded(Abs(Rem(amount, pow(10, u))), u)

(* C19: for every amount, negative ones included, and every number u of    *)
(* minor digits, Display of a Money<C> and of a MoneyDynamic without a     *)
(* width completes and renders "<CODE> <W>.<F>", W the whole part and F    *)
(* the fractional part in exactly u zero-padded digits, and                *)
(* "<CODE> <amount>" for u = 0.                                            *)
C19_TypedDisplayCompletes ==
    /\ typed.fn \in {"fmt_dynamic", "try_from", "fmt_money"} =>
        /\ typed.shown_d.res.tag = "Ok"
        /\ typed.shown_d.out = TypedText(typed.d.currency_code, typed.d.amount,
                                         typed.d.currency_units)
    /\ (typed.fn = "fmt_money" /\ typed.f_width = NoWidth) =>
        /\ typed.shown_m.res.tag = "Ok"
        /\ typed.shown_m.out = TypedText(typed.C.CODE, typed.conv.val.amount,
                                         typed.C.UNITS)

---------------------------------------------------------------------------
(* Sum over Money<C> *)

MaxSumLen == 3
SumAmounts == {-2, 0, 3}

\* Add for Money<C>, by value and by reference
Money_add(self, other) == [self EXCEPT !.amount = self.amount + other.amount]

\* Iterator::fold(init, Add::add)
RECURSIVE fold(_, _)
fold(iter, acc) ==
    IF iter = <<>> THEN acc ELSE fold(Tail(iter), Money_add(acc, Head(iter)))

\* impl Sum for Money<C>: the first element seeds the fold
sum(iter) ==
    IF iter = <<>> THEN Panic ELSE Ok(fold(Tail(iter), Head(iter)))

\* impl Sum<&Self> for Money<C>: zero seeds the fold
sum_ref(iter) == Ok(fold(iter, with_amount(0)))

RECURSIVE MoneysOfLen(_)
MoneysOfLen(n) ==
    IF n = 0 THEN {<<>>}
    ELSE {<<with_amount(a)>> \o s : a \in SumAmounts, s \in MoneysOfLen(n - 1)}

NoSum == [tag |-> "None"]

InitSum ==
    /\ rates = with_rates(<<>>)
    /\ expr = Money(0, <<0, 0, 0>>)
    /\ called = NoCall
    /\ result = NoResult
    /\ str = <<>>
    /\ parsed = NoParse
    /\ amt = Idle /\ disp = Idle /\ typed = Idle /\ summed = Idle

\* a vector of Money<C>
Collect ==
    /\ summed.fn = "none"
    /\ \E n \in 0..MaxSumLen : \E items \in MoneysOfLen(n) :
        summed' = [fn |-> "vec", items |-> items,
                   by_value |-> NoSum, by_ref |-> NoSum]
    /\ UNCHANGED <<algebraVars, codeVars, amt, disp, typed>>

\* items.iter().sum::<Money<C>>()
SumByRef ==
    /\ summed.fn = "vec"
    /\ summed.by_ref = NoSum
    /\ summed' = [summed EXCEPT !.by_ref = sum_ref(summed.items)]
    /\ UNCHANGED <<algebraVars, codeVars, amt, disp, typed>>

\* items.into_iter().sum::<Money<C>>() (on a clone while by_ref is to come)
SumByValue ==
    /\ summed.fn = "vec"
    /\ summed.by_value = NoSum
    /\ summed' = [summed EXCEPT !.by_value = sum(summed.items)]
    /\ UNCHANGED <<algebraVars, codeVars, amt, disp, typed>>

NextSum == Collect \/ SumByRef \/ SumByValue

SpecSum == InitSum /\ [][NextSum]_vars

\* the integer sum of the amounts of a sequence of Money<C>
RECURSIVE AmountSum(_)
AmountSum(items) ==
    IF items = <<>> THEN 0 ELSE Head(items).amount + AmountSum(Tail(items))

(* C18: summing any finite sequence of Money<C>, by value or by reference, *)
(* the empty sequence included, yields a Money<C> whose amount is the      *)
(* integer sum of the elements' amounts (0 for the empty sequence), and    *)
(* both Sum implementations give the same result on the same sequence.     *)
C18_SumIsIntegerSum ==
    summed.fn = "vec" =>
        /\ summed.by_value # NoSum =>
            summed.by_value = Ok(with_amount(AmountSum(summed.items)))
        /\ summed.by_ref # NoSum =>
            summed.by_ref = Ok(with_amount(AmountSum(summed.items)))
        /\ (summed.by_value # NoSum /\ summed.by_ref # NoSum) =>
            summed.by_value = summed.by_ref

---------------------------------------------------------------------------
(* Relations between two evaluations of the operation algebra *)

\* the node that adds where t subtracts, and subtracts where t adds, the
\* negated right operand
Negated(t) ==
    LET b == Money(-t.b.amount, t.b.currency_code)
    IN  IF t.op = "Add" THEN Sub(t.a, b) ELSE Add(t.a, b)

OfTwoMoneys(t) ==
    t.op \in {"Add", "Sub"} /\ t.a.op = "Money" /\ t.b.op = "Money"

(* C21: for all Money a and b and every rate table with positive worths    *)
(* for both codes, adding the negated b to a gives what subtracting b      *)
(* from a gives, and subtracting the negated b what adding b gives, also   *)
(* when the conversion of b truncates.                                     *)
C21_AddNegatedIsSub ==
    (/\ Executed
     /\ OfTwoMoneys(expr)
     /\ {expr.a.currency_code, expr.b.currency_code} \subseteq DOMAIN rates
     /\ rates[expr.a.currency_code] > 0
     /\ rates[expr.b.currency_code] > 0) =>
        /\ result.res.tag = "Ok"
        /\ result.res = execute(Negated(expr), rates).res

C21_Witness ==
    /\ Executed
    /\ OfTwoMoneys(expr) /\ expr.op = "Add"
    /\ expr.a.currency_code = USD /\ expr.b.currency_code = CHF
    /\ DOMAIN rates = Codes /\ rates[USD] = 2 /\ rates[CHF] = 3
    /\ expr.a.amount = -2 /\ expr.b.amount = 1
    /\ result.res = Ok(Money(-1, USD))
    /\ execute(Sub(expr.a, Money(-1, CHF)), rates).res = result.res

\* the node of t's kind with the Exponent e in place of t's
WithExponent(t, e) == IF t.op = "Mul" THEN Mul(t.a, e) ELSE Div(t.a, e)

(* C26: Exponents that compare equal are interchangeable as operands: for  *)
(* every Money m and Exponents e1 == e2, Mul(m, e1) executes to what       *)
(* Mul(m, e2) executes to, and Div(m, e1) to what Div(m, e2) executes to.  *)
C26_EqualExponentsInterchange ==
    (/\ Executed
     /\ expr.op \in {"Mul", "Div"}
     /\ expr.a.op = "Money") =>
        \A e2 \in Exponents :
            Exponent_eq(expr.e, e2) =>
                result.res = execute(WithExponent(expr, e2), rates).res

---------------------------------------------------------------------------
(* The bytes of a CurrencyCode *)

IsAscii(b) == b \in 0..127

(* C22: every CurrencyCode obtained through the validating conversion from *)
(* a string consists of exactly 3 ASCII bytes: no code holding a non-ASCII *)
(* byte can be constructed.                                                *)
C22_CodeIsThreeAsciiBytes ==
    (parsed.fn # "none" /\ parsed.out.tag = "Ok") =>
        /\ Len(CodeOf(parsed)) = 3
        /\ \A i \in 1..3 : IsAscii(CodeOf(parsed)[i])

---------------------------------------------------------------------------
(* Display for Money: negative amounts and the default precision *)

(* C23: for every Money with a negative amount and every precision p in    *)
(* 1..6, Display renders the amount truncated to p decimals with at most   *)
(* one minus sign, placed before the whole part, and a fractional part of  *)
(* digits only: -1.5 units at precision 2 render "-1.50 CODE", and -0.5    *)
(* units keep their sign.                                                  *)
C23_NegativeSignBeforeWhole ==
    (/\ Formatted
     /\ disp.money.amount < 0
     /\ disp.precision.tag = "Some"
     /\ disp.precision.val \in 1..6) =>
        LET p == disp.precision.val
            W == (-disp.money.amount) \div AMOUNT_UNIT
            F == ((-disp.money.amount) % AMOUNT_UNIT) \div pow(10, 6 - p)
            text == Digits(W) \o <<46>> \o ZeroPadded(F, p) \o <<32>>
                        \o disp.money.currency_code
        IN  /\ disp.res.tag = "Ok"
            /\ IF W = 0 /\ F = 0 THEN disp.out \in {text, <<45>> \o text}
               ELSE disp.out = <<45>> \o text

(* C24: Display of a Money with no explicit precision completes, with      *)
(* text or a formatting error, for every Money that can be constructed,    *)
(* one whose code the currency-metadata lookup does not know included; it  *)
(* never aborts.                                                           *)
C24_DefaultPrecisionNeverAborts ==
    (Formatted /\ disp.precision = NoPrecision) =>
        disp.res.tag \in {"Ok", "Err"}

---------------------------------------------------------------------------
(* Money::into_code on a machine integer: the signed 128-bit amounts and   *)
(* worths scaled down to IntBits bits, with the overflow of the product    *)

IntBits == 6
IntMin == -pow(2, IntBits - 1)
IntMax == pow(2, IntBits - 1) - 1
IsInt(x) == x \in IntMin..IntMax

\* the two's-complement value an overflowing result wraps to
wrapping(x) == ((x - IntMin) % pow(2, IntBits)) + IntMin

\* impl Mul for CurrencyAmount: self.0 * other.0 aborts on overflow under
\* overflow checks and wraps without them
CurrencyAmount_mul(self, other, overflow_checks) ==
    IF IsInt(self * other) THEN Ok(self * other)
    ELSE IF overflow_checks THEN Panic
    ELSE Ok(wrapping(self * other))

\* impl Div for CurrencyAmount: self.0 / other.0 aborts on a zero divisor
\* and on MIN / -1 in every build
CurrencyAmount_div(self, other) ==
    IF other = 0 \/ (self = IntMin /\ other = -1) THEN Panic
    ELSE Ok(TruncDiv(self, other))

\* Money::into_code with the machine arithmetic of its amount
into_code_int(self, code, rs, overflow_checks) ==
    LET ws == worth(rs, self.currency_code)
        wn == worth(rs, code)
        lg == ws.log \o wn.log
        product == CurrencyAmount_mul(self.amount, ws.res.val, overflow_checks)
        quotient == CurrencyAmount_div(product.val, wn.res.val)
    IN  IF ws.res.tag # "Ok" THEN ws
        ELSE IF wn.res.tag # "Ok" THEN [res |-> wn.res, log |-> lg]
        ELSE IF product.tag # "Ok" THEN [res |-> product, log |-> lg]
        ELSE IF quotient.tag # "Ok" THEN [res |-> quotient, log |-> lg]
        ELSE [res |-> Ok(Money(quotient.val, code)), log |-> lg]

IntAmounts == {IntMin, -3, 0, 5, IntMax \div 2 + 1, IntMax}
IntWorths == {1, 2, 3}
IntRateTables == UNION {[D -> IntWorths] : D \in SUBSET Codes}

InitInt ==
    /\ rates \in IntRateTables
    /\ expr \in {Money(a, c) : a \in IntAmounts, c \in Codes}
    /\ called = NoCall
    /\ result = NoResult
    /\ str = <<>>
    /\ parsed = NoParse
    /\ amt = Idle /\ disp = Idle /\ typed = Idle /\ summed = Idle

\* money.into_code(code, &rates), in a build with or without overflow checks
IntoCodeInt ==
    /\ called = NoCall
    /\ \E code \in Codes, overflow_checks \in BOOLEAN :
        /\ called' = [fn |-> "into_code_int", code |-> code,
                      overflow_checks |-> overflow_checks]
        /\ result' = into_code_int(expr, code, rates, overflow_checks)
    /\ UNCHANGED <<rates, expr, codeVars, amt, disp, typed, summed>>

NextInt == IntoCodeInt

SpecInt == InitInt /\ [][NextInt]_vars

(* C25: into_code returns the amount a * worth(X) / worth(Y) whenever a,   *)
(* both worths and that quotient are representable in the machine          *)
(* integer: the intermediate product never makes the conversion abort or   *)
(* return a wrapped value when the exact result fits.                      *)
C25_ProductNeverOverflows ==
    (/\ called.fn = "into_code_int"
     /\ {expr.currency_code, called.code} \subseteq DOMAIN rates
     /\ rates[called.code] # 0
     /\ IsInt(TruncDiv(expr.amount * rates[expr.currency_code],
                       rates[called.code]))) =>
        result.res =
            Ok(Money(TruncDiv(expr.amount * rates[expr.currency_code],
                              rates[called.code]),
                     called.code))

====
